---- MODULE Spec2Model ----
(***************************************************************************)
(* Game-Of-Life-Picture: the driver loop of src/main.rs (random fill,      *)
(* render/save, optional command, next generation, swap, delay), the       *)
(* transition rule next_state / next_generation on the ndarray grid and    *)
(* the rasterizer array2_to_image.                                         *)
(*                                                                         *)
(* A grid is an Array2<bool>: a record with its shape (nrows, ncols) and   *)
(* its cells, indexed <<row, column>> like ndarray's grid[(row, column)].  *)
(* An index outside the shape is a panic in the program; the model states  *)
(* every such check explicitly and sends the driver to pc = "panicked".    *)
(***************************************************************************)
EXTENDS Integers, Sequences, FiniteSets, TLC

\* ---------------------------------------------------------------- bounds
\* Largest number of cells (width * height) of a configured grid.
MaxCells == 4
\* Largest configured cell size in pixels.
MaxSize == 2
\* Largest configured max_iter.
MaxIter == 2
\* Number of cycles of the driver loop that are explored.
MaxCycles == 4
\* Largest number of cells of a grid whose parallel phases are interleaved.
MaxWorkerCells == 4
\* Largest number of cells of a grid whose every content is rendered.
MaxRasterCells == 6
\* Largest width and height of the boards the patterns are placed on.
MaxBoard == 5

\* ------------------------------------------------------ program constants
\* Luma of a live and of a dead cell.
LiveIntensity == 64
DeadIntensity == 0

VARIABLES
    args,    \* the parsed Args: width, height, size, command, max_iter, fill
    heap,    \* the two Array2<bool> allocated at startup, by buffer name
    cur,     \* which buffer the reference `cur` points to
    next,    \* which buffer the reference `next` points to
    iter,    \* generations computed since the last fill
    pc,      \* position of main in the loop body
    img,     \* the GrayImage of the last array2_to_image call
    cycle,   \* number of loop iterations started
    log,     \* phases executed in the loop iteration started last
    pending, \* items of the running parallel for_each not yet processed
    seed     \* the grid the last random fill produced

vars == <<args, heap, cur, next, iter, pc, img, cycle, log, pending, seed>>

\* ------------------------------------------------------------------ grid

\* Array2::from_elem((w, h), v): w rows, h columns.
FromElem(w, h, v) ==
    [nrows |-> w, ncols |-> h,
     cells |-> [p \in (0..(w - 1)) \X (0..(h - 1)) |-> v]]

\* ndarray's bounds check of grid[(r, c)].
InBounds(grid, idx) ==
    /\ idx[1] \in 0..(grid.nrows - 1)
    /\ idx[2] \in 0..(grid.ncols - 1)

\* isize::rem_euclid for a positive modulus.
RemEuclid(a, n) == a % n

\* The loops without the `continue` of lines 75-77.
OffsetsWithCentre == (-1..1) \X (-1..1)

\* The eight (i, j) of the two nested loops, (0, 0) skipped.
Offsets == {o \in (-1..1) \X (-1..1) : ~(o[1] = 0 /\ o[2] = 0)}

\* (ny, nx) for offset (i, j): both coordinates are reduced modulo ncols().
NeighborIndex(grid, x, y, o) ==
    <<RemEuclid(y + o[2], grid.ncols), RemEuclid(x + o[1], grid.ncols)>>

\* next_state panics: one of its index expressions is out of bounds.
NextStatePanics(grid, x, y) ==
    \/ \E o \in Offsets : ~InBounds(grid, NeighborIndex(grid, x, y, o))
    \/ ~InBounds(grid, <<y, x>>)

\* live_neighbors at the end of the loops (one count per offset).
LiveNeighbors(grid, x, y) ==
    Cardinality({o \in Offsets :
                    /\ InBounds(grid, NeighborIndex(grid, x, y, o))
                    /\ grid.cells[NeighborIndex(grid, x, y, o)]})

\* The match with its two arms exchanged.
RuleInverted(alive, n) == ~((alive /\ n = 2) \/ n = 3)

\* The match of next_state: (true, 2) | (_, 3) => true, _ => false.
Rule(alive, n) == (alive /\ n = 2) \/ n = 3

NextState(grid, x, y) ==
    IF InBounds(grid, <<y, x>>)
    THEN Rule(grid.cells[<<y, x>>], LiveNeighbors(grid, x, y))
    ELSE FALSE

\* next_generation: every ((y, x), next_val) of next.indexed_iter_mut().
NextGenerationPanics(c, n) ==
    \E p \in DOMAIN n.cells : NextStatePanics(c, p[2], p[1])

NextGeneration(c, n) ==
    [n EXCEPT !.cells = [p \in DOMAIN n.cells |-> NextState(c, p[2], p[1])]]

\* ------------------------------------------------------------ rasterizer

\* The width taken from the column count.
ImageWidthFromCols(grid, size) == grid.ncols * size

\* The products are u32 in the program; the grids and sizes explored here keep
\* them far below 2^32 (which is also beyond the model checker's integers).
ImageHeight(grid, size) == grid.ncols * size
ImageWidth(grid, size) == grid.nrows * size

\* put_pixel with the two coordinates exchanged.
PixelWritesTransposed(grid, size) ==
    {[px  |-> p[2] * size + j,
      py  |-> p[1] * size + i,
      v   |-> IF grid.cells[p] THEN LiveIntensity ELSE DeadIntensity,
      ord |-> ((p[1] * grid.ncols + p[2]) * size + i) * size + j] :
        p \in DOMAIN grid.cells, i \in 0..(size - 1), j \in 0..(size - 1)}

\* Every put_pixel call of array2_to_image, with its place in the loop order.
PixelWrites(grid, size) ==
    {[px  |-> p[1] * size + j,
      py  |-> p[2] * size + i,
      v   |-> IF grid.cells[p] THEN LiveIntensity ELSE DeadIntensity,
      ord |-> ((p[1] * grid.ncols + p[2]) * size + i) * size + j] :
        p \in DOMAIN grid.cells, i \in 0..(size - 1), j \in 0..(size - 1)}

\* put_pixel panics on a coordinate outside the image.
RasterPanics(grid, size) ==
    \E w \in PixelWrites(grid, size) :
        \/ w.px >= ImageWidth(grid, size)
        \/ w.py >= ImageHeight(grid, size)

\* GrayImage::new(width, height) is all zero; the last write to a pixel stays.
Array2ToImage(grid, size) ==
    LET width  == ImageWidth(grid, size)
        height == ImageHeight(grid, size)
        writes == PixelWrites(grid, size)
    IN [width |-> width, height |-> height,
        pix |-> [q \in (0..(width - 1)) \X (0..(height - 1)) |->
                    LET ws == {w \in writes : w.px = q[1] /\ w.py = q[2]}
                    IN IF ws = {} THEN 0
                       ELSE (CHOOSE w \in ws : \A u \in ws : u.ord <= w.ord).v]]

NoImage == [width |-> 0, height |-> 0, pix |-> [q \in {} |-> 0]]

\* ---------------------------------------------------------------- driver

\* fill is the probability in percent; 0 and 100 are gen_bool's sure cases.
FillValues == {0, 15, 100}

GenBool(p) == IF p = 0 THEN {FALSE} ELSE IF p = 100 THEN {TRUE} ELSE BOOLEAN

\* gen_bool panics on a probability outside [0, 1].
GenBoolPanics(p) == p < 0 \/ p > 100

Configs ==
    {a \in [width : 1..MaxCells, height : 1..MaxCells, size : 1..MaxSize,
            command : {"None", "Some"}, max_iter : 0..MaxIter,
            fill : FillValues] : a.width * a.height <= MaxCells}

Init ==
    /\ args \in Configs
    /\ heap = [b \in {"A", "B"} |-> FromElem(args.width, args.height, FALSE)]
    /\ cur = "A"
    /\ next = "B"
    /\ iter = args.max_iter
    /\ pc = "head"
    /\ img = NoImage
    /\ cycle = 0
    /\ log = <<>>
    /\ pending = {}
    /\ seed = heap[cur]

\* HeadFill without line 58 (iter = 0).
HeadFillNoReset ==
    /\ pc = "head"
    /\ cycle < MaxCycles
    /\ iter = args.max_iter
    /\ cycle' = cycle + 1
    /\ log' = <<"fill">>
    /\ IF DOMAIN heap[cur].cells # {} /\ GenBoolPanics(args.fill)
       THEN pc' = "panicked" /\ UNCHANGED <<heap, seed>>
       ELSE /\ \E c \in [DOMAIN heap[cur].cells -> GenBool(args.fill)] :
                  /\ heap' = [heap EXCEPT ![cur].cells = c]
                  /\ seed' = [heap[cur] EXCEPT !.cells = c]
            /\ pc' = "render"
    /\ UNCHANGED <<args, cur, next, img, iter, pending>>

\* HeadFill with the test of line 51 written iter >= max_iter.
HeadFillAtLeast ==
    /\ pc = "head"
    /\ cycle < MaxCycles
    /\ iter >= args.max_iter
    /\ cycle' = cycle + 1
    /\ log' = <<"fill">>
    /\ IF DOMAIN heap[cur].cells # {} /\ GenBoolPanics(args.fill)
       THEN pc' = "panicked" /\ UNCHANGED <<heap, iter, seed>>
       ELSE /\ \E c \in [DOMAIN heap[cur].cells -> GenBool(args.fill)] :
                  /\ heap' = [heap EXCEPT ![cur].cells = c]
                  /\ seed' = [heap[cur] EXCEPT !.cells = c]
            /\ iter' = 0
            /\ pc' = "render"
    /\ UNCHANGED <<args, cur, next, img, pending>>

\* Lines 51-59: iter == max_iter, every cell of cur drawn with gen_bool(fill)
\* (which panics on a fill outside [0, 1] as soon as there is a cell to draw).
HeadFill ==
    /\ pc = "head"
    /\ cycle < MaxCycles
    /\ iter = args.max_iter
    /\ cycle' = cycle + 1
    /\ log' = <<"fill">>
    /\ IF DOMAIN heap[cur].cells # {} /\ GenBoolPanics(args.fill)
       THEN pc' = "panicked" /\ UNCHANGED <<heap, iter, seed>>
       ELSE /\ \E c \in [DOMAIN heap[cur].cells -> GenBool(args.fill)] :
                  /\ heap' = [heap EXCEPT ![cur].cells = c]
                  /\ seed' = [heap[cur] EXCEPT !.cells = c]
            /\ iter' = 0
            /\ pc' = "render"
    /\ UNCHANGED <<args, cur, next, img, pending>>

\* The loop going on without the test of line 51.
HeadSkipAlways ==
    /\ pc = "head"
    /\ cycle < MaxCycles
    /\ pc' = "render"
    /\ cycle' = cycle + 1
    /\ log' = <<>>
    /\ UNCHANGED <<args, heap, cur, next, iter, img, pending, seed>>

\* Line 51, condition false.
HeadSkip ==
    /\ pc = "head"
    /\ cycle < MaxCycles
    /\ iter # args.max_iter
    /\ pc' = "render"
    /\ cycle' = cycle + 1
    /\ log' = <<>>
    /\ UNCHANGED <<args, heap, cur, next, iter, img, pending, seed>>

\* Render that is tried again after a failed save.
RenderRetries ==
    /\ \/ pc = "render"
       \/ pc = "failed" /\ log # <<>> /\ log[Len(log)] = "render"
    /\ log' = Append(log, "render")
    /\ IF RasterPanics(heap[cur], args.size)
       THEN pc' = "panicked" /\ UNCHANGED img
       ELSE /\ img' = Array2ToImage(heap[cur], args.size)
            /\ \E saved \in BOOLEAN :
                   pc' = IF saved THEN "command" ELSE "failed"
    /\ UNCHANGED <<args, heap, cur, next, iter, cycle, pending, seed>>

\* Line 60: array2_to_image(&cur, size).save(output)?
Render ==
    /\ pc = "render"
    /\ log' = Append(log, "render")
    /\ IF RasterPanics(heap[cur], args.size)
       THEN pc' = "panicked" /\ UNCHANGED img
       ELSE /\ img' = Array2ToImage(heap[cur], args.size)
            /\ \E saved \in BOOLEAN :
                   pc' = IF saved THEN "command" ELSE "failed"
    /\ UNCHANGED <<args, heap, cur, next, iter, cycle, pending, seed>>

\* Line 61, command is None.
CommandNone ==
    /\ pc = "command"
    /\ args.command = "None"
    /\ pc' = "compute"
    /\ UNCHANGED <<args, heap, cur, next, iter, img, cycle, log, pending, seed>>

\* Lines 61-63: Command::new(command).spawn()?
CommandSpawn ==
    /\ pc = "command"
    /\ args.command = "Some"
    /\ log' = Append(log, "command")
    /\ \E spawned \in BOOLEAN :
           pc' = IF spawned THEN "compute" ELSE "failed"
    /\ UNCHANGED <<args, heap, cur, next, iter, img, cycle, pending, seed>>

\* Line 64: next_generation(cur, next).
ComputeNext ==
    /\ pc = "compute"
    /\ log' = Append(log, "compute")
    /\ IF NextGenerationPanics(heap[cur], heap[next])
       THEN pc' = "panicked" /\ UNCHANGED heap
       ELSE /\ heap' = [heap EXCEPT
                           ![next] = NextGeneration(heap[cur], heap[next])]
            /\ pc' = "swap"
    /\ UNCHANGED <<args, cur, next, iter, img, cycle, pending, seed>>

\* Swap that goes on to the next loop iteration without the sleep of line 67.
SwapSkipsDelay ==
    /\ pc = "swap"
    /\ cur' = next
    /\ next' = cur
    /\ iter' = iter + 1
    /\ pc' = "head"
    /\ log' = Append(log, "swap")
    /\ UNCHANGED <<args, heap, img, cycle, pending, seed>>

\* cur = next instead of the exchange: both references name one buffer.
SwapAliases ==
    /\ pc = "swap"
    /\ cur' = next
    /\ next' = next
    /\ iter' = iter + 1
    /\ pc' = "delay"
    /\ log' = Append(log, "swap")
    /\ UNCHANGED <<args, heap, img, cycle, pending, seed>>

\* Lines 65-66 without the mem::swap.
SwapNoExchange ==
    /\ pc = "swap"
    /\ iter' = iter + 1
    /\ pc' = "delay"
    /\ log' = Append(log, "swap")
    /\ UNCHANGED <<args, heap, cur, next, img, cycle, pending, seed>>

\* Lines 65-66: mem::swap(&mut cur, &mut next); iter += 1.
Swap ==
    /\ pc = "swap"
    /\ cur' = next
    /\ next' = cur
    /\ iter' = iter + 1
    /\ pc' = "delay"
    /\ log' = Append(log, "swap")
    /\ UNCHANGED <<args, heap, img, cycle, pending, seed>>

\* Line 67: sleep(delay).await, then the next loop iteration.
Delay ==
    /\ pc = "delay"
    /\ pc' = "head"
    /\ log' = Append(log, "delay")
    /\ UNCHANGED <<args, heap, cur, next, iter, img, cycle, pending, seed>>

Next ==
    \/ HeadFill
    \/ HeadSkip
    \/ Render
    \/ CommandNone
    \/ CommandSpawn
    \/ ComputeNext
    \/ Swap
    \/ Delay

Spec == Init /\ [][Next]_vars

\* --------------------------------------------------------- configuration
\* The driver from the command line on: Args::parse() (clap exits on a size or
\* a delay below 1; width, height and max_iter are any usize, fill any f64),
\* then the two allocations and iter of lines 47-49.

\* Largest width and height of a command line.
MaxConfigDim == 2

RawConfigs ==
    [width : 0..MaxConfigDim, height : 0..MaxConfigDim, size : 0..1,
     command : {"None", "Some"}, max_iter : {2}, fill : {-50, 0, 15, 100, 150},
     delay : 0..1]

ConfigInit ==
    /\ args \in RawConfigs
    /\ heap = [b \in {"A", "B"} |-> FromElem(0, 0, FALSE)]
    /\ cur = "A"
    /\ next = "B"
    /\ iter = 0
    /\ pc = "parse"
    /\ img = NoImage
    /\ cycle = 0
    /\ log = <<>>
    /\ pending = {}
    /\ seed = heap[cur]

\* Lines 46-49.
Parse ==
    /\ pc = "parse"
    /\ IF args.size < 1 \/ args.delay < 1
       THEN pc' = "rejected" /\ UNCHANGED <<heap, iter, seed>>
       ELSE /\ heap' = [b \in {"A", "B"} |->
                           FromElem(args.width, args.height, FALSE)]
            /\ seed' = FromElem(args.width, args.height, FALSE)
            /\ iter' = args.max_iter
            /\ pc' = "head"
    /\ UNCHANGED <<args, cur, next, img, cycle, log, pending>>

ConfigNext ==
    \/ Parse
    \/ Next

SpecConfig == ConfigInit /\ [][ConfigNext]_vars

\* --------------------------------------------------------------- workers
\* The two parallel phases item by item: par_bridge().for_each hands every
\* item of the iterator to some worker exactly once, in any order, and
\* returns when all of them are done (or propagates a worker's panic).

WorkerConfigs ==
    {a \in [width : 1..MaxWorkerCells, height : 1..MaxWorkerCells, size : {1},
            command : {"None"}, max_iter : 1..MaxIter, fill : FillValues] :
        a.width * a.height <= MaxWorkerCells}

WorkersInit ==
    /\ args \in WorkerConfigs
    /\ heap = [b \in {"A", "B"} |-> FromElem(args.width, args.height, FALSE)]
    /\ cur = "A"
    /\ next = "B"
    /\ iter = args.max_iter
    /\ pc = "head"
    /\ img = NoImage
    /\ cycle = 0
    /\ log = <<>>
    /\ pending = {}
    /\ seed = heap[cur]

\* Lines 51-52: iter == max_iter, cur.iter_mut().par_bridge() starts.
FillStart ==
    /\ pc = "head"
    /\ cycle < MaxCycles
    /\ iter = args.max_iter
    /\ pending' = DOMAIN heap[cur].cells
    /\ pc' = "filling"
    /\ cycle' = cycle + 1
    /\ log' = <<"fill">>
    /\ UNCHANGED <<args, heap, cur, next, iter, img, seed>>

\* Lines 54-56: one worker draws one cell, *val = rng.gen_bool(args.fill).
FillCell ==
    /\ pc = "filling"
    /\ \E p \in pending :
           IF GenBoolPanics(args.fill)
           THEN pc' = "panicked" /\ UNCHANGED <<heap, pending>>
           ELSE /\ \E b \in GenBool(args.fill) :
                      heap' = [heap EXCEPT ![cur].cells[p] = b]
                /\ pending' = pending \ {p}
                /\ pc' = pc
    /\ UNCHANGED <<args, cur, next, iter, img, cycle, log, seed>>

\* for_each_init returning while items are still pending.
FillJoinEarly ==
    /\ pc = "filling"
    /\ iter' = 0
    /\ seed' = heap[cur]
    /\ pc' = "render"
    /\ UNCHANGED <<args, heap, cur, next, img, cycle, log, pending>>

\* Lines 57-58: for_each_init has returned; iter = 0.
FillJoin ==
    /\ pc = "filling"
    /\ pending = {}
    /\ iter' = 0
    /\ seed' = heap[cur]
    /\ pc' = "render"
    /\ UNCHANGED <<args, heap, cur, next, img, cycle, log, pending>>

\* Lines 92-93: next.indexed_iter_mut().par_bridge() starts.
ComputeStart ==
    /\ pc = "compute"
    /\ pending' = DOMAIN heap[next].cells
    /\ pc' = "computing"
    /\ log' = Append(log, "compute")
    /\ UNCHANGED <<args, heap, cur, next, iter, img, cycle, seed>>

\* The worker of lines 94-96 that writes the current grid instead of the next.
ComputeCellInPlace ==
    /\ pc = "computing"
    /\ \E p \in pending :
           IF NextStatePanics(heap[cur], p[2], p[1])
           THEN pc' = "panicked" /\ UNCHANGED <<heap, pending>>
           ELSE /\ heap' = [heap EXCEPT
                               ![cur].cells[p] = NextState(heap[cur], p[2], p[1])]
                /\ pending' = pending \ {p}
                /\ pc' = pc
    /\ UNCHANGED <<args, cur, next, iter, img, cycle, log, seed>>

\* Lines 94-96: one worker, *next_val = next_state(cur, x, y) for its (y, x).
ComputeCell ==
    /\ pc = "computing"
    /\ \E p \in pending :
           IF NextStatePanics(heap[cur], p[2], p[1])
           THEN pc' = "panicked" /\ UNCHANGED <<heap, pending>>
           ELSE /\ heap' = [heap EXCEPT
                               ![next].cells[p] = NextState(heap[cur], p[2], p[1])]
                /\ pending' = pending \ {p}
                /\ pc' = pc
    /\ UNCHANGED <<args, cur, next, iter, img, cycle, log, seed>>

\* for_each returning while items are still pending.
ComputeJoinEarly ==
    /\ pc = "computing"
    /\ pc' = "swap"
    /\ UNCHANGED <<args, heap, cur, next, iter, img, cycle, log, pending, seed>>

\* Line 96-97: for_each has returned, every item is done.
ComputeJoin ==
    /\ pc = "computing"
    /\ pending = {}
    /\ pc' = "swap"
    /\ UNCHANGED <<args, heap, cur, next, iter, img, cycle, log, pending, seed>>

WorkersNext ==
    \/ FillStart
    \/ FillCell
    \/ FillJoin
    \/ HeadSkip
    \/ Render
    \/ CommandNone
    \/ ComputeStart
    \/ ComputeCell
    \/ ComputeJoin
    \/ Swap
    \/ Delay

SpecWorkers == WorkersInit /\ [][WorkersNext]_vars

\* ------------------------------------------------------------ rendering
\* The render of line 60 from every state the first fill can leave: any
\* content of the grid (0 < fill < 1), for every explored shape and cell size.
RasterInit ==
    /\ args \in {a \in [width : 1..MaxRasterCells, height : 1..MaxRasterCells,
                        size : 1..MaxSize, command : {"None"},
                        max_iter : {0}, fill : {15}] :
                    a.width * a.height <= MaxRasterCells}
    /\ \E c \in [(0..(args.width - 1)) \X (0..(args.height - 1)) -> BOOLEAN] :
           heap = [b \in {"A", "B"} |->
                      IF b = "A"
                      THEN [nrows |-> args.width, ncols |-> args.height, cells |-> c]
                      ELSE FromElem(args.width, args.height, FALSE)]
    /\ cur = "A"
    /\ next = "B"
    /\ iter = 0
    /\ pc = "render"
    /\ img = NoImage
    /\ cycle = 1
    /\ log = <<"fill">>
    /\ pending = {}
    /\ seed = heap[cur]

SpecRaster == RasterInit /\ [][Render]_vars

\* -------------------------------------------------------------- patterns
\* The driver on larger boards, from the state its first fill leaves when the
\* draws of gen_bool(0.15) come out as a 2x2 block or a row of three cells,
\* with max_iter = 0 (no later refill) and no command.

\* A grid of w rows and h columns whose live cells are `live`.
PatternGrid(w, h, live) ==
    [nrows |-> w, ncols |-> h,
     cells |-> [p \in (0..(w - 1)) \X (0..(h - 1)) |-> p \in live]]

\* Positions are (x, y) = (first axis, second axis), as in array2_to_image.
BlockCells(w, h, x, y) ==
    {<<x, y>>, <<(x + 1) % w, y>>, <<x, (y + 1) % h>>, <<(x + 1) % w, (y + 1) % h>>}

HorizontalCells(w, h, x, y) == {<<(x - 1) % w, y>>, <<x, y>>, <<(x + 1) % w, y>>}

VerticalCells(w, h, x, y) == {<<x, (y - 1) % h>>, <<x, y>>, <<x, (y + 1) % h>>}

PatternConfigs ==
    [width : 3..MaxBoard, height : 3..MaxBoard, size : {1},
     command : {"None"}, max_iter : {0}, fill : {15}]

PatternInit ==
    /\ args \in PatternConfigs
    /\ \E x \in 0..(args.width - 1), y \in 0..(args.height - 1) :
       \E live \in {BlockCells(args.width, args.height, x, y),
                    HorizontalCells(args.width, args.height, x, y)} :
           heap = [b \in {"A", "B"} |->
                      IF b = "A" THEN PatternGrid(args.width, args.height, live)
                      ELSE FromElem(args.width, args.height, FALSE)]
    /\ cur = "A"
    /\ next = "B"
    /\ iter = 0
    /\ pc = "render"
    /\ img = NoImage
    /\ cycle = 1
    /\ log = <<"fill">>
    /\ pending = {}
    /\ seed = heap[cur]

PatternNext ==
    \/ HeadSkip
    \/ Render
    \/ CommandNone
    \/ ComputeNext
    \/ Swap
    \/ Delay

SpecPattern == PatternInit /\ [][PatternNext]_vars

\* --------------------------------------------------------------- helpers

Last(s) == s[Len(s)]

CurGrid == heap[cur]
NextGrid == heap[next]

AllDead(grid) == \A p \in DOMAIN grid.cells : ~grid.cells[p]

\* The action that ran last in the current loop iteration.
JustDid(phase) == log # <<>> /\ Last(log) = phase

\* The Life rule on the torus: rows wrap modulo nrows, columns modulo ncols.
TorusNeighbors(grid, x, y) ==
    Cardinality({o \in Offsets :
        grid.cells[<<(y + o[2]) % grid.nrows, (x + o[1]) % grid.ncols>>]})

TorusRule(grid, x, y) ==
    LET n == TorusNeighbors(grid, x, y)
        alive == grid.cells[<<y, x>>]
    IN (alive /\ n \in {2, 3}) \/ (~alive /\ n = 3)

\* ------------------------------------------------------------------- C1
\* C1: for every R x C grid and every cell, next_state equals the Life rule on
\* the torus whose rows wrap modulo R and whose columns wrap modulo C: once
\* next_generation has run, every cell of the next grid holds that value.
C1_NextStateIsTorusRule ==
    (pc = "swap" /\ JustDid("compute")) =>
        \A p \in DOMAIN NextGrid.cells :
            NextGrid.cells[p] = TorusRule(CurGrid, p[2], p[1])

\* ------------------------------------------------------------------- C2
\* C2: for every width, height >= 1 and every grid content, every index
\* computed during next_generation lies inside the grid: computing a
\* generation never ends in an out-of-range panic.
C2_NoOutOfRangeAccess ==
    ~(pc = "panicked" /\ JustDid("compute"))

\* ------------------------------------------------------------------- C3
PhaseRank(phase) ==
    CASE phase = "fill" -> 1
      [] phase = "render" -> 2
      [] phase = "command" -> 3
      [] phase = "compute" -> 4
      [] phase = "swap" -> 5
      [] phase = "delay" -> 6

\* The phases every loop iteration runs; fill and command are optional.
MandatoryPhases == {"render", "compute", "swap", "delay"}

\* C3: in every cycle the phases run strictly in the order (fill), render,
\* (command), compute-next, swap, delay: none is repeated, reordered or
\* skipped; compute-next starts only once the render of the cycle is done, and
\* the next cycle starts only once the delay of this one is done.
C3_PhaseOrder ==
    /\ \A k \in 1..(Len(log) - 1) : PhaseRank(log[k]) < PhaseRank(log[k + 1])
    /\ \A k \in 1..Len(log) : \A m \in MandatoryPhases :
           PhaseRank(m) < PhaseRank(log[k]) => \E h \in 1..(k - 1) : log[h] = m
    /\ pc = "compute" => \E h \in 1..Len(log) : log[h] = "render"
    /\ (pc = "head" /\ cycle > 0) => JustDid("delay")

\* A second cycle has run all six phases.
C3_Witness ==
    /\ cycle = 2
    /\ pc = "head"
    /\ log = <<"fill", "render", "command", "compute", "swap", "delay">>

\* ------------------------------------------------------------------- C4
\* The loop iteration started last began with a fill.
BeganWithFill == log # <<>> /\ log[1] = "fill"

\* C4: for max_iter >= 1 the cycles that begin with a fill are exactly the
\* cycles 0, max_iter, 2*max_iter, ... (cycle - 1 is the index of the cycle
\* started last), and at the head of every cycle 0 <= iter <= max_iter.
C4_FillSchedule ==
    args.max_iter >= 1 =>
        /\ pc = "head" => (0 <= iter /\ iter <= args.max_iter)
        /\ cycle >= 1 => (BeganWithFill <=> (cycle - 1) % args.max_iter = 0)

\* The second refill with max_iter = 2, and a cycle without a fill before it.
C4_Witness ==
    /\ args.max_iter = 2
    /\ cycle = 3
    /\ pc = "render"
    /\ BeganWithFill
    /\ iter = 0

\* ------------------------------------------------------------------- C5
\* C5 as the spec states it: the buffer of array2_to_image is (columns * S)
\* wide and (rows * S) high.
C5_BufferIsColsByRows ==
    JustDid("render") =>
        /\ img.width = CurGrid.ncols * args.size
        /\ img.height = CurGrid.nrows * args.size

\* C5, as the code has it: array2_to_image returns (it does not panic) a buffer
\* that is (rows * S) wide and (columns * S) high, rows being the grid's first
\* axis (the configured width) and columns its second (the configured height).
C5_BufferIsRowsByCols ==
    JustDid("render") =>
        /\ pc # "panicked"
        /\ img.width = CurGrid.nrows * args.size
        /\ img.height = CurGrid.ncols * args.size
        /\ DOMAIN img.pix = (0..(img.width - 1)) \X (0..(img.height - 1))

\* A non-square grid has been rendered with cells of 2 pixels.
C5_Witness ==
    /\ JustDid("render")
    /\ pc = "command"
    /\ CurGrid.nrows # CurGrid.ncols
    /\ args.size = 2
    /\ img.width = 2 * CurGrid.nrows

\* ------------------------------------------------------------------- C6
Flip(grid, c) == [grid EXCEPT !.cells[c] = ~@]

\* Pixel q lies in the S x S block at the offset (x*S, y*S) of cell c = (x, y).
InBlock(q, c, size) ==
    /\ q[1] \in (c[1] * size)..(c[1] * size + size - 1)
    /\ q[2] \in (c[2] * size)..(c[2] * size + size - 1)

\* C6: the image of a W x H grid with cell size S is (W*S) x (H*S); every
\* write stays inside it; pixel (px, py) is live (64) iff cell (px div S,
\* py div S) is true and dead (0) otherwise, so the all-false grid gives an
\* all-dead image; and flipping one cell changes exactly the pixels of that
\* cell's S x S block.
C6_Rasterization ==
    JustDid("render") =>
        /\ pc # "panicked"
        /\ img.width = args.width * args.size
        /\ img.height = args.height * args.size
        /\ DOMAIN img.pix =
               (0..(args.width * args.size - 1)) \X (0..(args.height * args.size - 1))
        /\ \A w \in PixelWrites(CurGrid, args.size) :
               w.px < img.width /\ w.py < img.height
        /\ \A q \in DOMAIN img.pix :
               img.pix[q] =
                   IF CurGrid.cells[<<q[1] \div args.size, q[2] \div args.size>>]
                   THEN LiveIntensity ELSE DeadIntensity
        /\ AllDead(CurGrid) => \A q \in DOMAIN img.pix : img.pix[q] = DeadIntensity
        /\ \A c \in DOMAIN CurGrid.cells :
               LET flipped == Array2ToImage(Flip(CurGrid, c), args.size)
               IN /\ DOMAIN flipped.pix = DOMAIN img.pix
                  /\ \A q \in DOMAIN img.pix :
                         (flipped.pix[q] # img.pix[q]) <=> InBlock(q, c, args.size)

\* A non-square grid with exactly one live cell, not at the origin, has been
\* rendered with cells of 2 pixels.
C6_Witness ==
    /\ JustDid("render")
    /\ pc = "command"
    /\ args.width # args.height
    /\ args.size = 2
    /\ Cardinality({p \in DOMAIN CurGrid.cells : CurGrid.cells[p]}) = 1
    /\ ~CurGrid.cells[<<0, 0>>]
    /\ \E q \in DOMAIN img.pix : img.pix[q] = LiveIntensity

\* ------------------------------------------------------------------- C9
\* A step of the random fill (lines 51-59).
IsFillStep == pc = "head" /\ iter = args.max_iter

\* C9: if the current grid has no live cell, then no step other than a refill
\* (compute-next, swap, or any other) gives the current grid a live cell.
C9_EmptyStaysEmpty ==
    [][(AllDead(CurGrid) /\ ~IsFillStep) => AllDead(CurGrid')]_vars

\* Two generations after an all-dead fill of a 2x2 grid, the grid is all dead.
C9_Witness ==
    /\ args.fill = 0
    /\ args.width = 2
    /\ args.height = 2
    /\ iter = 2
    /\ pc = "delay"
    /\ AllDead(CurGrid)

\* ------------------------------------------------------------------ C10
\* C10: on a 1x1 grid next_generation does not panic, the live-neighbour count
\* of the single cell is 8 when it is live and 0 when it is dead, and the next
\* generation is dead in both cases.
C10_OneByOne ==
    (args.width = 1 /\ args.height = 1) =>
        /\ ~(pc = "panicked")
        /\ (pc = "swap" /\ JustDid("compute")) =>
               /\ LiveNeighbors(CurGrid, 0, 0) =
                      (IF CurGrid.cells[<<0, 0>>] THEN 8 ELSE 0)
               /\ ~NextGrid.cells[<<0, 0>>]

\* The next generation of the live 1x1 grid has been computed.
C10_Witness ==
    /\ args.width = 1
    /\ args.height = 1
    /\ pc = "swap"
    /\ JustDid("compute")
    /\ CurGrid.cells[<<0, 0>>]
    /\ LiveNeighbors(CurGrid, 0, 0) = 8

\* ------------------------------------------------------------------- C7
\* C7: on every board of at least 4x4 cells and for every position of a solid
\* 2x2 block (wrapped positions included), all other cells dead,
\* next_generation produces a grid equal to its input.
C7_BlockIsStill ==
    \A x \in 0..(args.width - 1), y \in 0..(args.height - 1) :
        ( /\ args.width >= 4
          /\ args.height >= 4
          /\ JustDid("compute")
          /\ CurGrid = PatternGrid(args.width, args.height,
                                   BlockCells(args.width, args.height, x, y)) )
        => (pc = "swap" /\ NextGrid = CurGrid)

\* ------------------------------------------------------------------- C8
\* C8: on every board at least 5 wide and 3 tall, three horizontally adjacent
\* live cells become the three vertically adjacent cells through the same
\* centre after one generation, and the original three after two.
C8_BlinkerPeriodTwo ==
    \A x \in 0..(args.width - 1), y \in 0..(args.height - 1) :
        LET horizontal == PatternGrid(args.width, args.height,
                              HorizontalCells(args.width, args.height, x, y))
            vertical   == PatternGrid(args.width, args.height,
                              VerticalCells(args.width, args.height, x, y))
        IN (args.width >= 5 /\ args.height >= 3 /\ JustDid("compute")) =>
               /\ (iter = 0 /\ CurGrid = horizontal)
                      => (pc = "swap" /\ NextGrid = vertical)
               /\ (iter = 1 /\ CurGrid = vertical)
                      => (pc = "swap" /\ NextGrid = horizontal)

\* ------------------------------------------------------------------ C11
AllLive(grid) == \A p \in DOMAIN grid.cells : grid.cells[p]

\* C11: when the random fill has returned no item of it is left to process,
\* and whatever the grid held before and whatever order the workers ran in,
\* the grid is all dead for fill = 0 and all live for fill = 1.
C11_FillIsTotal ==
    (pc = "render" /\ log = <<"fill">>) =>
        /\ pending = {}
        /\ args.fill = 0 => AllDead(CurGrid)
        /\ args.fill = 100 => AllLive(CurGrid)

\* A refill with probability 1 of a 4-cell grid that held dead cells.
C11_Witness ==
    /\ pc = "render"
    /\ log = <<"fill">>
    /\ args.fill = 100
    /\ cycle >= 2
    /\ args.width * args.height = 4
    /\ AllLive(CurGrid)
    /\ ~AllLive(NextGrid)

\* ------------------------------------------------------------------ C14
\* C14: while the workers of next_generation run, in any interleaving, a step
\* leaves the current grid and both references alone, changes no cell of the
\* next grid except one that was still pending (so none is written twice), and
\* gives that cell next_state of the current grid; when all are done the next
\* grid is the one the sequential map produces.
C14_WorkersDisjoint ==
    /\ [][pc = "computing" =>
            /\ cur' = cur
            /\ next' = next
            /\ heap'[cur] = heap[cur]
            /\ pending' \subseteq pending
            /\ Cardinality(pending \ pending') <= 1
            /\ \A q \in DOMAIN heap[next].cells :
                   heap'[next].cells[q] # heap[next].cells[q]
                       => (q \in pending /\ q \notin pending')
            /\ \A q \in pending \ pending' :
                   heap'[next].cells[q] = NextState(heap[cur], q[2], q[1])]_vars
    /\ [](pc = "swap" => NextGrid = NextGeneration(CurGrid, NextGrid))

\* Half of the workers of a 2x2 grid are done and one of them wrote a live cell.
C14_Witness ==
    /\ pc = "computing"
    /\ args.width = 2
    /\ args.height = 2
    /\ Cardinality(pending) = 2
    /\ \E q \in DOMAIN NextGrid.cells : q \notin pending /\ NextGrid.cells[q]

\* ------------------------------------------------------------------ C17
\* C17: at every swap no worker of the compute-next phase is pending and every
\* cell of the next grid holds next_state of the current grid, not the value
\* the buffer held two generations earlier.
C17_NextFullyWritten ==
    pc = "swap" =>
        /\ pending = {}
        /\ \A p \in DOMAIN NextGrid.cells :
               NextGrid.cells[p] = NextState(CurGrid, p[2], p[1])

\* A swap is due in which the next buffer, all live two generations earlier,
\* has been overwritten with dead cells.
C17_Witness ==
    /\ pc = "swap"
    /\ pending = {}
    /\ args.fill = 100
    /\ args.max_iter = 2
    /\ iter = 1
    /\ cycle = 2
    /\ AllDead(NextGrid)

\* ------------------------------------------------------------------ C12
\* C12: a failed save or a failed spawn ends the loop at once: the failure is
\* the last thing done in its cycle (no command, compute-next or swap after a
\* failed save; no compute-next or swap after a failed spawn) and no step
\* follows it (no retry, no later render).
C12_ErrorsAreFatal ==
    /\ [](pc = "failed" => (JustDid("render") \/ JustDid("command")))
    /\ [][pc # "failed"]_vars

\* The spawn has failed in the second cycle.
C12_Witness ==
    /\ pc = "failed"
    /\ JustDid("command")
    /\ cycle = 2

\* ------------------------------------------------------------------ C13
InvalidConfig ==
    \/ args.width = 0
    \/ args.height = 0
    \/ args.fill < 0
    \/ args.fill > 100
    \/ args.size < 1
    \/ args.delay < 1

\* C13: with an invalid dimension, fill, size or delay the program gets no
\* further than start-up: it is rejected, or dies in the first draw of the
\* fill, before a fill completes, an image is built or a command is spawned.
C13_InvalidConfigRejected ==
    InvalidConfig =>
        /\ pc \in {"parse", "rejected", "head", "panicked"}
        /\ img = NoImage
        /\ log \in {<<>>, <<"fill">>}
        /\ cycle <= 1

\* ------------------------------------------------------------------ C15
\* C15: with a well-formed configuration and no failed save or spawn the loop
\* never stops: the driver always has a next step (within the explored cycles).
C15_LoopNeverStops ==
    ( /\ args.width >= 1
      /\ args.height >= 1
      /\ args.size >= 1
      /\ args.fill \in 0..100
      /\ pc # "failed"
      /\ cycle < MaxCycles ) => ENABLED Next

\* ------------------------------------------------------------------ C16
\* C16: cur and next always name the two different buffers allocated at
\* start-up, both of the configured shape with every cell defined, and the
\* swap exchanges the two references and changes no buffer.
C16_TwoBuffers ==
    /\ [](/\ cur # next
          /\ {cur, next} = {"A", "B"}
          /\ DOMAIN heap = {"A", "B"}
          /\ \A b \in DOMAIN heap :
                 /\ heap[b].nrows = args.width
                 /\ heap[b].ncols = args.height
                 /\ DOMAIN heap[b].cells =
                        (0..(args.width - 1)) \X (0..(args.height - 1)))
    /\ [][pc = "swap" => (heap' = heap /\ cur' = next /\ next' = cur)]_vars

\* After a swap on a non-square grid, the buffer that was current holds its
\* live cells untouched under the name next.
C16_Witness ==
    /\ pc = "delay"
    /\ cur = "B"
    /\ next = "A"
    /\ args.width # args.height
    /\ ~AllDead(heap["A"])

\* ------------------------------------------------------------------ C18
\* k applications of next_generation to g.
RECURSIVE Generations(_, _)
Generations(g, k) ==
    IF k = 0 THEN g ELSE NextGeneration(Generations(g, k - 1), g)

\* C18: for max_iter >= 1 the image rendered iter cycles after a refill is
\* the rasterization of the iter-th generation of the grid that refill
\* produced; no step between a fill or a swap and the following render
\* changes the current grid, and compute-next does not change it either.
C18_RenderedGenerations ==
    /\ []((args.max_iter >= 1 /\ JustDid("render") /\ pc # "panicked") =>
              img = Array2ToImage(Generations(seed, iter), args.size))
    /\ [][(pc \in {"delay", "head", "render"} /\ ~IsFillStep)
              => (heap'[cur'] = heap[cur])]_vars
    /\ [][(pc \in {"command", "compute"}) => (heap'[cur'] = heap[cur])]_vars

\* The second image after a fill (max_iter = 2) shows a first generation that
\* differs from the filled grid, and is not the image of the filled grid.
C18_Witness ==
    /\ args.max_iter = 2
    /\ iter = 1
    /\ JustDid("render")
    /\ pc = "command"
    /\ CurGrid # seed
    /\ img = Array2ToImage(CurGrid, args.size)
    /\ img # Array2ToImage(seed, args.size)

\* ------------------------------------------------------------------ C19
\* C19: with max_iter = 0 only the first cycle begins with a fill; at the head
\* of every later cycle iter > max_iter, and the image of cycle n is the
\* rasterization of the n-th generation of that one fill.
C19_SingleFill ==
    args.max_iter = 0 =>
        /\ cycle >= 1 => (BeganWithFill <=> cycle = 1)
        /\ (pc = "head" /\ cycle >= 1) => iter > args.max_iter
        /\ (JustDid("render") /\ pc # "panicked") =>
               img = Array2ToImage(Generations(seed, cycle - 1), args.size)

\* The third image of a run with max_iter = 0 still shows live cells.
C19_Witness ==
    /\ args.max_iter = 0
    /\ cycle = 3
    /\ JustDid("render")
    /\ pc = "command"
    /\ iter = 2
    /\ ~AllDead(CurGrid)

\* ------------------------------------------------------------------ C20
\* C20: for max_iter >= 1 every render shows a generation below max_iter; at
\* the head of a refill cycle the current grid holds generation max_iter,
\* max_iter cycles have been run for the fill, and the last image is the one
\* of generation max_iter - 1.
C20_LastGenerationNotRendered ==
    args.max_iter >= 1 =>
        /\ JustDid("render") => iter < args.max_iter
        /\ (pc = "head" /\ cycle >= 1 /\ iter = args.max_iter) =>
               /\ cycle % args.max_iter = 0
               /\ CurGrid = Generations(seed, args.max_iter)
               /\ img = Array2ToImage(Generations(seed, args.max_iter - 1),
                                      args.size)

\* Before the third fill of a run with max_iter = 1 the current grid holds a
\* first generation that differs from the filled grid, and the last image is
\* the one of the filled grid.
C20_Witness ==
    /\ args.max_iter = 1
    /\ pc = "head"
    /\ iter = 1
    /\ cycle = 2
    /\ CurGrid # seed
    /\ img = Array2ToImage(seed, args.size)
    /\ img # Array2ToImage(CurGrid, args.size)

====
